---- MODULE Spec2Model ----
(***************************************************************************)
(* Model of gera_graficos.py: the spreadsheet is loaded, its columns are   *)
(* normalised onto the canonical schema, the data are prepared, and the    *)
(* dashboard callback atualizar_grafico answers chart queries over the     *)
(* prepared table.                                                         *)
(*                                                                         *)
(* Python strings are sequences of one-character strings so that lower(),  *)
(* isalnum(), strip() and str() are computed, not assumed.  Cell and       *)
(* header values are a tagged union (null, bool, int, float, str, date,    *)
(* period).  A DataFrame is column-major: columns (labels, in order),      *)
(* data (one sequence of cells per column) and index (the row count).      *)
(* pd.read_excel makes duplicate headers unique, so labels are distinct.   *)
(***************************************************************************)
EXTENDS Integers, Sequences, FiniteSets, TLC

VARIABLES pc, erro, existe, planilha, df, workers, cb

vars == <<pc, erro, existe, planilha, df, workers, cb>>

\* ------------------------------------------------------------------ values

NA == [t |-> "na"]

B(b) == [t |-> "bool", b |-> b]

N(n) == [t |-> "int", n |-> n]

\* The float i.d with one decimal digit d (1.0 is F(1, 0)).
F(i, d) == [t |-> "float", i |-> i, d |-> d]

S(chars) == [t |-> "str", s |-> chars]

Date(y, mo, d) == [t |-> "date", y |-> y, mo |-> mo, d |-> d]

Period(y, mo) == [t |-> "period", y |-> y, mo |-> mo]

\* achar's "return None", and the exceptions the program can raise.
None == [t |-> "None"]

AttributeError == [t |-> "raise", e |-> "AttributeError"]

isna(v) == v.t = "na"

Range(f) == {f[i] : i \in DOMAIN f}

\* The element of a one-element set.
Unico(set) == CHOOSE x \in set : TRUE

\* ----------------------------------------------------------------- strings

s_id == <<"i", "d">>

s_data_de_compra == <<"d", "a", "t", "a", " ", "d", "e", " ", "c", "o", "m", "p", "r", "a">>

s_data_compra == <<"d", "a", "t", "a", "_", "c", "o", "m", "p", "r", "a">>

s_preco == <<"p", "r", "e", "c", "o">>

s_km == <<"k", "m">>

s_parcela_mensal == <<"p", "a", "r", "c", "e", "l", "a", "_", "m", "e", "n", "s", "a", "l">>

s_financiado == <<"f", "i", "n", "a", "n", "c", "i", "a", "d", "o">>

s_forma_pagamento == <<"f", "o", "r", "m", "a", "_", "p", "a", "g", "a", "m", "e", "n", "t", "o">>

s_mes_compra == <<"m", "e", "s", "_", "c", "o", "m", "p", "r", "a">>

s_ano_compra == <<"a", "n", "o", "_", "c", "o", "m", "p", "r", "a">>

s_cidade == <<"c", "i", "d", "a", "d", "e">>

s_marca == <<"m", "a", "r", "c", "a">>

s_Financiado == <<"F", "i", "n", "a", "n", "c", "i", "a", "d", "o">>

s_A_vista == <<"À", " ", "v", "i", "s", "t", "a">>

s_true == <<"t", "r", "u", "e">>

s_1 == <<"1">>

s_sim == <<"s", "i", "m">>

s_s == <<"s">>

s_yes == <<"y", "e", "s">>

s_y == <<"y">>

s_Data_de_Compra == <<"D", "a", "t", "a", " ", "d", "e", " ", "C", "o", "m", "p", "r", "a">>

s_DATA_COMPRA == <<"D", "A", "T", "A", "-", "C", "O", "M", "P", "R", "A">>

s_date == <<"d", "a", "t", "e">>

s_Preco_cedilha == <<"P", "r", "e", "ç", "o">>

s_obs == <<"o", "b", "s">>

s_PRECO == <<"P", "R", "E", "C", "O">>

s_Finance == <<"F", "i", "n", "a", "n", "c", "e">>

s_Sim == <<"S", "i", "m">>

s_YES == <<"Y", "E", "S">>

s_vazio == <<>>

s_nao == <<"n", "a", "o">>

s_0 == <<"0">>

s_sim_espacos == <<" ", "s", "i", "m", " ">>

s_talvez == <<"t", "a", "l", "v", "e", "z">>

s_S == <<"S">>

s_2024_01 == <<"2", "0", "2", "4", "-", "0", "1">>

s_2024_02 == <<"2", "0", "2", "4", "-", "0", "2">>

s_2024_01_15 == <<"2", "0", "2", "4", "-", "0", "1", "-", "1", "5">>

s_2024_01_20 == <<"2", "0", "2", "4", "-", "0", "1", "-", "2", "0">>

s_2024_02_01 == <<"2", "0", "2", "4", "-", "0", "2", "-", "0", "1">>

s_2023_12_31 == <<"2", "0", "2", "3", "-", "1", "2", "-", "3", "1">>

s_2024_02_30 == <<"2", "0", "2", "4", "-", "0", "2", "-", "3", "0">>

s_abc == <<"a", "b", "c">>

s_12 == <<"1", "2">>

s_12_5 == <<"1", "2", ".", "5">>

s_12_345_67 == <<"1", "2", ".", "3", "4", "5", ",", "6", "7">>

s_SP == <<"S", "P">>

s_RJ == <<"R", "J">>

s_XX == <<"X", "X">>

s_Fiat == <<"F", "i", "a", "t">>

s_VW == <<"V", "W">>

s_Ford == <<"F", "o", "r", "d">>


m ==
  << [target |-> S(<<"i", "d">>),
      candidates |-> << <<"i", "d">>,
                       <<"c", "u", "s", "t", "o", "m", "e", "r", "_", "i", "d">>,
                       <<"c", "u", "s", "t", "o", "m", "e", "r", "i", "d">> >>],
     [target |-> S(<<"n", "o", "m", "e">>),
      candidates |-> << <<"n", "o", "m", "e">>,
                       <<"n", "a", "m", "e">>,
                       <<"c", "l", "i", "e", "n", "t", "e">>,
                       <<"c", "u", "s", "t", "o", "m", "e", "r", "_", "n", "a", "m", "e">> >>],
     [target |-> S(<<"i", "d", "a", "d", "e">>),
      candidates |-> << <<"i", "d", "a", "d", "e">>,
                       <<"a", "g", "e">> >>],
     [target |-> S(<<"s", "e", "x", "o">>),
      candidates |-> << <<"s", "e", "x", "o">>,
                       <<"g", "e", "n", "d", "e", "r">>,
                       <<"g", "e", "n", "e", "r", "o">>,
                       <<"s", "e", "x">> >>],
     [target |-> S(<<"m", "a", "r", "c", "a">>),
      candidates |-> << <<"m", "a", "r", "c", "a">>,
                       <<"c", "a", "r", "_", "m", "a", "k", "e">>,
                       <<"m", "a", "k", "e">>,
                       <<"b", "r", "a", "n", "d">> >>],
     [target |-> S(<<"m", "o", "d", "e", "l", "o">>),
      candidates |-> << <<"m", "o", "d", "e", "l", "o">>,
                       <<"c", "a", "r", "_", "m", "o", "d", "e", "l">>,
                       <<"m", "o", "d", "e", "l">> >>],
     [target |-> S(<<"c", "o", "m", "b", "u", "s", "t", "i", "v", "e", "l">>),
      candidates |-> << <<"c", "o", "m", "b", "u", "s", "t", "i", "v", "e", "l">>,
                       <<"f", "u", "e", "l", "_", "t", "y", "p", "e">>,
                       <<"f", "u", "e", "l">>,
                       <<"c", "o", "m", "b", "u", "s", "t", "í", "v", "e", "l">> >>],
     [target |-> S(<<"p", "r", "e", "c", "o">>),
      candidates |-> << <<"p", "r", "e", "c", "o">>,
                       <<"p", "u", "r", "c", "h", "a", "s", "e", "_", "p", "r", "i", "c", "e">>,
                       <<"p", "r", "i", "c", "e">>,
                       <<"v", "a", "l", "o", "r">>,
                       <<"p", "r", "e", "ç", "o">> >>],
     [target |-> S(<<"d", "a", "t", "a", "_", "c", "o", "m", "p", "r", "a">>),
      candidates |-> << <<"d", "a", "t", "a", "_", "c", "o", "m", "p", "r", "a">>,
                       <<"p", "u", "r", "c", "h", "a", "s", "e", "_", "d", "a", "t", "e">>,
                       <<"d", "a", "t", "e">>,
                       <<"d", "a", "t", "a", " ", "d", "e", " ", "c", "o", "m", "p", "r", "a">> >>],
     [target |-> S(<<"k", "m">>),
      candidates |-> << <<"k", "m">>,
                       <<"m", "i", "l", "e", "a", "g", "e">>,
                       <<"q", "u", "i", "l", "o", "m", "e", "t", "r", "a", "g", "e", "m">> >>],
     [target |-> S(<<"s", "e", "r", "v", "i", "c", "o", "s">>),
      candidates |-> << <<"s", "e", "r", "v", "i", "c", "o", "s">>,
                       <<"s", "e", "r", "v", "i", "c", "e", "_", "c", "o", "u", "n", "t">>,
                       <<"s", "e", "r", "v", "i", "ç", "o", "s">> >>],
     [target |-> S(<<"u", "l", "t", "i", "m", "a", "_", "m", "a", "n", "u", "t", "e", "n", "c", "a", "o">>),
      candidates |-> << <<"u", "l", "t", "i", "m", "a", "_", "m", "a", "n", "u", "t", "e", "n", "c", "a", "o">>,
                       <<"l", "a", "s", "t", "_", "s", "e", "r", "v", "i", "c", "e", "_", "d", "a", "t", "e">>,
                       <<"l", "a", "s", "t", "_", "s", "e", "r", "v", "i", "c", "e">>,
                       <<"u", "l", "t", "i", "m", "o", "_", "s", "e", "r", "v", "i", "c", "o">> >>],
     [target |-> S(<<"c", "i", "d", "a", "d", "e">>),
      candidates |-> << <<"c", "i", "d", "a", "d", "e">>,
                       <<"c", "i", "t", "y">>,
                       <<"l", "o", "c", "a", "t", "i", "o", "n">> >>],
     [target |-> S(<<"f", "i", "n", "a", "n", "c", "i", "a", "d", "o">>),
      candidates |-> << <<"f", "i", "n", "a", "n", "c", "i", "a", "d", "o">>,
                       <<"f", "i", "n", "a", "n", "c", "e">>,
                       <<"i", "s", "_", "f", "i", "n", "a", "n", "c", "e", "d">>,
                       <<"f", "i", "n", "a", "n", "c", "i", "a", "m", "e", "n", "t", "o">> >>],
     [target |-> S(<<"p", "a", "r", "c", "e", "l", "a", "_", "m", "e", "n", "s", "a", "l">>),
      candidates |-> << <<"p", "a", "r", "c", "e", "l", "a", "_", "m", "e", "n", "s", "a", "l">>,
                       <<"m", "o", "n", "t", "h", "l", "y", "_", "p", "a", "y", "m", "e", "n", "t">>,
                       <<"p", "a", "r", "c", "e", "l", "a">>,
                       <<"v", "a", "l", "o", "r", "_", "p", "a", "r", "c", "e", "l", "a">> >>] >>

lower_map ==
  ("A" :> "a") @@ ("B" :> "b") @@ ("C" :> "c") @@ ("D" :> "d") @@ ("E" :> "e") @@
  ("F" :> "f") @@ ("G" :> "g") @@ ("H" :> "h") @@ ("I" :> "i") @@ ("J" :> "j") @@
  ("K" :> "k") @@ ("L" :> "l") @@ ("M" :> "m") @@ ("N" :> "n") @@ ("O" :> "o") @@
  ("P" :> "p") @@ ("Q" :> "q") @@ ("R" :> "r") @@ ("S" :> "s") @@ ("T" :> "t") @@
  ("U" :> "u") @@ ("V" :> "v") @@ ("W" :> "w") @@ ("X" :> "x") @@ ("Y" :> "y") @@
  ("Z" :> "z") @@ ("Ç" :> "ç") @@ ("Í" :> "í") @@ ("À" :> "à")
alnum_chars ==
  {"a", "b", "c", "d", "e", "f", "g", "h", "i", "j", "k", "l", "m", "n", "o", "p", "q",
   "r", "s", "t", "u", "v", "w", "x", "y", "z", "ç", "í", "à", "A", "B", "C", "D", "E",
   "F", "G", "H", "I", "J", "K", "L", "M", "N", "O", "P", "Q", "R", "S", "T", "U", "V",
   "W", "X", "Y", "Z", "Ç", "Í", "À", "0", "1", "2", "3", "4", "5", "6", "7", "8", "9"}

digit_chars == <<"0", "1", "2", "3", "4", "5", "6", "7", "8", "9">>

\* str.lower() on the alphabet of the model, character by character.
lower(chars) ==
  [i \in 1..Len(chars) |->
     IF chars[i] \in DOMAIN lower_map THEN lower_map[chars[i]] ELSE chars[i]]

isalnum(ch) == ch \in alnum_chars

isspace(ch) == ch \in {" ", "\t", "\n"}

RECURSIVE lstrip(_)
lstrip(chars) ==
  IF Len(chars) > 0 /\ isspace(Head(chars)) THEN lstrip(Tail(chars)) ELSE chars

RECURSIVE rstrip(_)
rstrip(chars) ==
  IF Len(chars) > 0 /\ isspace(chars[Len(chars)])
  THEN rstrip(SubSeq(chars, 1, Len(chars) - 1))
  ELSE chars

strip(chars) == rstrip(lstrip(chars))

RECURSIVE str_nat(_)
str_nat(n) ==
  IF n < 10 THEN <<digit_chars[n + 1]>>
  ELSE str_nat(n \div 10) \o <<digit_chars[(n % 10) + 1]>>

str_int(n) == IF n < 0 THEN <<"-">> \o str_nat(-n) ELSE str_nat(n)

\* n written with at least w digits, zero-padded (strftime's %Y, %m, %d).
RECURSIVE zfill(_, _)
zfill(chars, w) == IF Len(chars) >= w THEN chars ELSE zfill(<<"0">> \o chars, w)

\* Python's str(v).
str(v) ==
  CASE v.t = "str" -> v.s
    [] v.t = "int" -> str_int(v.n)
    [] v.t = "float" -> str_int(v.i) \o <<".">> \o str_nat(v.d)
    [] v.t = "bool" -> IF v.b THEN <<"T", "r", "u", "e">> ELSE <<"F", "a", "l", "s", "e">>
    [] v.t = "date" ->
         zfill(str_nat(v.y), 4) \o <<"-">> \o zfill(str_nat(v.mo), 2)
           \o <<"-">> \o zfill(str_nat(v.d), 2)
    [] v.t = "period" -> zfill(str_nat(v.y), 4) \o <<"-">> \o zfill(str_nat(v.mo), 2)
    [] OTHER -> <<"n", "a", "n">>

\* -------------------------------------------------------------- DataFrame

DataFrame(columns, data, index) ==
  [columns |-> columns, data |-> data, index |-> index]

has_col(d, name) == \E j \in 1..Len(d.columns) : d.columns[j] = name

col_pos(d, name) == CHOOSE j \in 1..Len(d.columns) : d.columns[j] = name

\* df[name]
getitem(d, name) == d.data[col_pos(d, name)]

\* df[name] = vals: replaces the column in place or appends it at the end.
setitem(d, name, vals) ==
  IF has_col(d, name)
  THEN [d EXCEPT !.data[col_pos(d, name)] = vals]
  ELSE [d EXCEPT !.columns = Append(@, name), !.data = Append(@, vals)]

\* A scalar assigned to a column is broadcast to every row.
broadcast(d, v) == [r \in 1..d.index |-> v]

\* ------------------------------------------------------ normalizar_colunas

\* Both sides of the comparison in achar: lowercased, non-alphanumerics removed.
\* Faulty variant of chave: lowercases only, punctuation kept.
chave_sem_filtro(chars) == lower(chars)

chave(chars) == SelectSeq(lower(chars), isalnum)

\* The test of achar: the header col and the candidate cand are equal once
\* both are lowercased and stripped of non-alphanumerics.
casa(col, cand) == chave(col) = chave(cand)

Min(set) == CHOOSE x \in set : \A y \in set : x <= y

\* achar(df, lista): its iterations are numbered in execution order, and the
\* function returns at the first one that matches; col.lower() raises
\* AttributeError on a header that is not a string.  parada(columns, lista)
\* gives, for an iteration number, the candidate and the column it visits.
\* Faulty variant of parada: the loops swapped, columns outside.
parada_colunas_primeiro(columns, lista, p) ==
  [cand |-> lista[((p - 1) % Len(lista)) + 1],
   col |-> columns[((p - 1) \div Len(lista)) + 1]]

\* for cand in lista: for col in df.columns: ...
parada(columns, lista, p) ==
  [cand |-> lista[((p - 1) \div Len(columns)) + 1],
   col |-> columns[((p - 1) % Len(columns)) + 1]]

achar(columns, lista) ==
  LET termina(p) ==
        LET it == parada(columns, lista, p)
        IN  it.col.t # "str" \/ casa(it.col.s, it.cand)
      fim == {p \in 1..(Len(lista) * Len(columns)) : termina(p)}
  IN  IF fim = {} THEN None
      ELSE LET col == parada(columns, lista, Min(fim)).col
           IN  IF col.t # "str" THEN AttributeError ELSE col

\* Faulty variant of normalizar_passo: no column for a field without a match.
normalizar_passo_sem_ausentes(df2, k) ==
  LET col == achar(df2.columns, m[k].candidates)
  IN  IF col = AttributeError THEN AttributeError
      ELSE IF col # None THEN setitem(df2, m[k].target, getitem(df2, col))
      ELSE df2

\* One turn of the loop of normalizar_colunas, for the k-th entry of m:
\* col = achar(df2, candidates); df2[target] = df2[col] if col is not None else pd.NA
normalizar_passo(df2, k) ==
  LET col == achar(df2.columns, m[k].candidates)
  IN  IF col = AttributeError THEN AttributeError
      ELSE setitem(df2, m[k].target,
                   IF col # None THEN getitem(df2, col) ELSE broadcast(df2, NA))

\* The loop from the k-th entry of m on, over the copy df2.
RECURSIVE normalizar_de(_, _)
normalizar_de(df2, k) ==
  IF k > Len(m) THEN df2
  ELSE Unico({IF d = AttributeError THEN d ELSE normalizar_de(d, k + 1) :
                d \in {normalizar_passo(df2, k)}})

\* The canonical field names and the candidates of one of them.
campos == {m[k].target : k \in DOMAIN m}

candidatos(target) == m[CHOOSE k \in DOMAIN m : m[k].target = target].candidates

\* Variant of normalizar_colunas that drops every column that is no canonical field.
normalizar_colunas_so_canonicas(d) ==
  LET r == normalizar_de(d, 1)
  IN  IF r = AttributeError THEN r
      ELSE LET keep == SelectSeq([j \in 1..Len(r.columns) |-> j],
                                 LAMBDA j : r.columns[j] \in campos)
           IN  DataFrame([k \in 1..Len(keep) |-> r.columns[keep[k]]],
                         [k \in 1..Len(keep) |-> r.data[keep[k]]], r.index)

\* df2 = df.copy(); the loop over m.items(); return df2
normalizar_colunas(d) == normalizar_de(d, 1)

\* ---------------------------------------------------------- preparar_dados

digit_val(ch) == CHOOSE k \in 0..9 : digit_chars[k + 1] = ch

is_digits(chars) ==
  Len(chars) > 0 /\ \A i \in 1..Len(chars) : chars[i] \in Range(digit_chars)

RECURSIVE parse_nat(_)
parse_nat(chars) ==
  IF Len(chars) = 0 THEN 0
  ELSE 10 * parse_nat(SubSeq(chars, 1, Len(chars) - 1)) + digit_val(chars[Len(chars)])

is_leap(y) == (y % 4 = 0 /\ y % 100 # 0) \/ y % 400 = 0

days_in_month(y, mo) ==
  IF mo = 2 THEN (IF is_leap(y) THEN 29 ELSE 28)
  ELSE IF mo \in {4, 6, 9, 11} THEN 30 ELSE 31

\* pd.to_datetime(column, errors='coerce').dt.date, cell by cell, for the values
\* the inputs of the model hold in data_compra: null, ISO dates YYYY-MM-DD and
\* text that is no date.  An invalid calendar date is coerced to NaT.  (A number
\* is read as nanoseconds since the epoch, which for a small number is 1970-01-01.)
to_datetime_date(v) ==
  CASE v.t = "date" -> v
    [] v.t = "str" ->
         LET c == v.s
         IN  IF /\ Len(c) = 10
                /\ c[5] = "-" /\ c[8] = "-"
                /\ is_digits(SubSeq(c, 1, 4))
                /\ is_digits(SubSeq(c, 6, 7))
                /\ is_digits(SubSeq(c, 9, 10))
             THEN LET y == parse_nat(SubSeq(c, 1, 4))
                      mo == parse_nat(SubSeq(c, 6, 7))
                      d == parse_nat(SubSeq(c, 9, 10))
                  IN  IF y >= 1 /\ mo \in 1..12 /\ d \in 1..days_in_month(y, mo)
                      THEN Date(y, mo, d)
                      ELSE NA
             ELSE NA
    [] v.t \in {"int", "float"} -> Date(1970, 1, 1)
    [] OTHER -> NA

\* pd.to_numeric(column, errors='coerce'), cell by cell: numbers stay, text of
\* digits (with at most one decimal digit, the floats of the model) is parsed,
\* anything else becomes NaN.
to_numeric(v) ==
  CASE v.t \in {"int", "float"} -> v
    [] v.t = "bool" -> N(IF v.b THEN 1 ELSE 0)
    [] v.t = "str" ->
         LET c == v.s
         IN  IF is_digits(c) THEN N(parse_nat(c))
             ELSE IF /\ Len(c) >= 3
                     /\ c[Len(c) - 1] = "."
                     /\ is_digits(SubSeq(c, 1, Len(c) - 2))
                     /\ is_digits(<<c[Len(c)]>>)
                  THEN F(parse_nat(SubSeq(c, 1, Len(c) - 2)), digit_val(c[Len(c)]))
                  ELSE NA
    [] OTHER -> NA

verdadeiros == {s_true, s_1, s_sim, s_s, s_yes, s_y, s_financiado}

\* Faulty variant of to_bool: the text is not trimmed.
to_bool_sem_strip(v) ==
  IF isna(v) THEN FALSE
  ELSE IF v.t = "bool" THEN v.b
  ELSE lower(str(v)) \in verdadeiros

\* to_bool(v); the cells of the model never make pd.isna or str raise.
to_bool(v) ==
  IF isna(v) THEN FALSE
  ELSE IF v.t = "bool" THEN v.b
  ELSE lower(strip(str(v))) \in verdadeiros

\* Faulty variant of forma_pagamento: the two labels exchanged.
forma_pagamento_invertida(v) == IF v.b THEN S(s_A_vista) ELSE S(s_Financiado)

\* lambda v: 'Financiado' if v else 'À vista'
forma_pagamento(v) == IF v.b THEN S(s_Financiado) ELSE S(s_A_vista)

\* .dt.to_period('M') and .dt.year of a date; NaT gives NaT / NaN.
to_period_M(v) == IF v.t = "date" THEN Period(v.y, v.mo) ELSE NA

year(v) == IF v.t = "date" THEN N(v.y) ELSE NA

\* df.get(name): the column, or None (assigned as a null column) when absent.
get(d, name) == IF has_col(d, name) THEN getitem(d, name) ELSE broadcast(d, NA)

\* df[name] = f(df.get(name)) for the three numeric columns (lines 58-60).
coerce_numeric(d, name) ==
  LET c == get(d, name)
  IN  setitem(d, name, [r \in 1..Len(c) |-> to_numeric(c[r])])

\* Lines 55-56.
coerce_data_compra(d) ==
  IF has_col(d, S(s_data_compra))
  THEN LET c == getitem(d, S(s_data_compra))
       IN  setitem(d, S(s_data_compra), [r \in 1..Len(c) |-> to_datetime_date(c[r])])
  ELSE d

\* Lines 62-73.
coerce_financiado(d) ==
  IF has_col(d, S(s_financiado))
  THEN LET c == getitem(d, S(s_financiado))
       IN  setitem(d, S(s_financiado), [r \in 1..Len(c) |-> B(to_bool(c[r]))])
  ELSE setitem(d, S(s_financiado), broadcast(d, B(FALSE)))

\* Line 75.
deriva_forma_pagamento(d) ==
  LET c == getitem(d, S(s_financiado))
  IN  setitem(d, S(s_forma_pagamento), [r \in 1..Len(c) |-> forma_pagamento(c[r])])

\* Lines 77-79.
deriva_mes_ano(d) ==
  IF has_col(d, S(s_data_compra))
  THEN LET c == getitem(d, S(s_data_compra))
       IN  setitem(setitem(d, S(s_mes_compra), [r \in 1..Len(c) |-> to_period_M(c[r])]),
                   S(s_ano_compra), [r \in 1..Len(c) |-> year(c[r])])
  ELSE d

\* The statements of preparar_dados in order, each on the result of the one before.
preparar_dados(d) ==
  Unico({deriva_mes_ano(d6) :
    d6 \in {deriva_forma_pagamento(d5) :
    d5 \in {coerce_financiado(d4) :
    d4 \in {coerce_numeric(d3, S(s_parcela_mensal)) :
    d3 \in {coerce_numeric(d2, S(s_km)) :
    d2 \in {coerce_numeric(d1, S(s_preco)) :
    d1 \in {coerce_data_compra(d)}}}}}}})

\* ------------------------------------------------------- iniciar_dashboard

\* Python's "<" between two values: defined within numbers, within text and
\* within dates; sorted() raises TypeError on any other pair.
comparable(a, b) ==
  \/ a.t \in {"int", "float", "bool"} /\ b.t \in {"int", "float", "bool"}
  \/ a.t = b.t /\ a.t \in {"str", "date", "period"}

\* sorted(df["cidade"].dropna().unique()) raises on values of mixed types.
opcoes_levanta(d) ==
  LET vs == Range(getitem(d, S(s_cidade))) \ {NA}
  IN  \E a, b \in vs : ~comparable(a, b)

\* Python's truth value of the callback argument (None is NA here).
truthy(v) ==
  CASE v.t = "na" -> FALSE
    [] v.t = "str" -> Len(v.s) > 0
    [] v.t = "int" -> v.n # 0
    [] v.t = "float" -> v.i # 0 \/ v.d # 0
    [] v.t = "bool" -> v.b
    [] OTHER -> TRUE

\* df[mask]: the rows whose mask is true, in order.
linhas(d, mask) ==
  LET keep == SelectSeq([r \in 1..d.index |-> r], LAMBDA r : mask[r])
  IN  [d EXCEPT !.data = [j \in 1..Len(d.data) |->
                            [k \in 1..Len(keep) |-> d.data[j][keep[k]]]],
                !.index = Len(keep)]

\* "==" between a cell and the filter: a null cell equals nothing.
igual(cell, v) == ~isna(cell) /\ cell = v

\* df2 = df.copy(); if cidade: df2 = df2[df2["cidade"] == cidade]
filtrar(d, cidade) ==
  IF truthy(cidade)
  THEN LET c == getitem(d, S(s_cidade))
       IN  linhas(d, [r \in 1..d.index |-> igual(c[r], cidade)])
  ELSE d

\* ------------------------------------------------------------ aggregation

\* The distinct non-null values of a column with their counts, in the order of
\* first occurrence (the order of the hash table value_counts fills).
contagens(col) ==
  LET firsts == SelectSeq([r \in 1..Len(col) |-> r],
                          LAMBDA r : ~isna(col[r]) /\ \A q \in 1..(r - 1) : col[q] # col[r])
  IN  [k \in 1..Len(firsts) |->
         [key |-> col[firsts[k]],
          count |-> Cardinality({r \in 1..Len(col) : col[r] = col[firsts[k]]})]]

\* The descending order that keeps entries of equal count in their order in serie.
estavel_desc(serie) ==
  LET rank(p) == 1 + Cardinality({q \in DOMAIN serie :
                      \/ serie[q].count > serie[p].count
                      \/ serie[q].count = serie[p].count /\ q < p})
  IN  [k \in 1..Len(serie) |-> serie[CHOOSE p \in DOMAIN serie : rank(p) = k]]

\* Every arrangement of the positions ps of serie by descending count.
RECURSIVE ordens(_, _)
ordens(serie, ps) ==
  IF ps = {} THEN {<<>>}
  ELSE LET maiores == {p \in ps : \A q \in ps : serie[q].count <= serie[p].count}
       IN  UNION {{<<serie[p]>> \o o : o \in ordens(serie, ps \ {p})} : p \in maiores}

\* Series.sort_values(ascending=False) with the default kind, quicksort, which
\* is not a stable sort.  numpy sorts up to 17 entries by insertion, which
\* keeps entries of equal count in order; a longer series is partitioned, and
\* entries of equal count come out in an order that the build of numpy
\* decides: every descending arrangement is an outcome.
sort_values_desc(serie) ==
  IF Len(serie) <= 17 THEN {estavel_desc(serie)} ELSE ordens(serie, DOMAIN serie)

\* Series.value_counts(): counts of the non-null values, sorted descending.
value_counts(col) == sort_values_desc(contagens(col))

\* Faulty variant of nlargest: sorted, not cut to n.
nlargest_sem_corte(serie, n) == sort_values_desc(serie)

\* Series.nlargest(n): when n covers the series it is sort_values(ascending=
\* False).head(n); otherwise the n largest, keep='first', in descending order.
nlargest(serie, n) ==
  IF n >= Len(serie) THEN sort_values_desc(serie)
  ELSE {SubSeq(estavel_desc(serie), 1, n)}

\* Series.sort_index() of a series with distinct period labels.
sort_index(serie) ==
  LET antes(a, b) == a.y < b.y \/ (a.y = b.y /\ a.mo < b.mo)
      rank(p) == 1 + Cardinality({q \in DOMAIN serie : antes(serie[q].key, serie[p].key)})
  IN  [k \in 1..Len(serie) |-> serie[CHOOSE p \in DOMAIN serie : rank(p) = k]]

keys(serie) == [k \in 1..Len(serie) |-> serie[k].key]

counts(serie) == [k \in 1..Len(serie) |-> serie[k].count]

TopN == 10

NBins == 20

\* go.Figure()
Figure == [kind |-> "empty"]

\* px.histogram(df2, x="preco", nbins=20): the figure carries the column.
grafico_hist(df2) ==
  {[kind |-> "histogram", x |-> getitem(df2, S(s_preco)), nbins |-> NBins]}

\* px.bar over df2[campo].value_counts().nlargest(10)
grafico_top(df2, campo) ==
  {[kind |-> "bar", x |-> keys(top), y |-> counts(top)] :
     top \in UNION {nlargest(vc, TopN) : vc \in value_counts(getitem(df2, campo))}}

\* Faulty variant of grafico_mes: sort_index() left out.
grafico_mes_sem_sort_index(df2) ==
  LET col == getitem(df2, S(s_mes_compra))
  IN  IF Cardinality({r \in 1..Len(col) : ~isna(col[r])}) = 0 THEN {Figure}
      ELSE {[kind |-> "line",
             x |-> [k \in 1..Len(series) |-> str(series[k].key)],
             y |-> counts(series)] : series \in value_counts(col)}

\* The "mes" branch: empty figure without dates, else the counts sorted by month.
grafico_mes(df2) ==
  LET col == getitem(df2, S(s_mes_compra))
  IN  IF Cardinality({r \in 1..Len(col) : ~isna(col[r])}) = 0 THEN {Figure}
      ELSE {[kind |-> "line",
             x |-> [k \in 1..Len(series) |-> str(series[k].key)],
             y |-> counts(series)] :
              series \in {sort_index(vc) : vc \in value_counts(col)}}

\* px.pie over df2["forma_pagamento"].value_counts()
grafico_pagamento(df2) ==
  {[kind |-> "pie", names |-> keys(cnt), values |-> counts(cnt)] :
     cnt \in value_counts(getitem(df2, S(s_forma_pagamento)))}

\* The branches of atualizar_grafico after the filter: the figures it can return.
figuras(tipo, df2) ==
  CASE tipo = "hist" -> grafico_hist(df2)
    [] tipo = "marcas" -> grafico_top(df2, S(s_marca))
    [] tipo = "cidades" -> grafico_top(df2, S(s_cidade))
    [] tipo = "mes" -> grafico_mes(df2)
    [] tipo = "pagamento" -> grafico_pagamento(df2)
    [] OTHER -> {Figure}

\* ------------------------------------------------------------ the program

\* The values a client can send for the two inputs of the callback: the five
\* chart types and any other text; no city, a city, or any other value.
Tipos == {"hist", "marcas", "cidades", "mes", "pagamento", "outro"}

Filtros == {NA, S(s_vazio), N(0), S(s_SP), S(s_RJ), S(s_XX)}

Idle == [st |-> "idle"]

\* carregar_planilha(INPUT_XLSX)
Carregar ==
  /\ pc = "inicio"
  /\ IF ~existe
     THEN pc' = "erro" /\ erro' = "FileNotFoundError" /\ df' = df
     ELSE pc' = "carregado" /\ erro' = erro /\ df' = planilha
  /\ UNCHANGED <<existe, planilha, workers, cb>>

\* df = normalizar_colunas(df)
Normalizar ==
  /\ pc = "carregado"
  /\ LET r == normalizar_colunas(df)
     IN  IF r = AttributeError
         THEN pc' = "erro" /\ erro' = "AttributeError" /\ df' = df
         ELSE pc' = "normalizado" /\ erro' = erro /\ df' = r
  /\ UNCHANGED <<existe, planilha, workers, cb>>

\* df = preparar_dados(df)
Preparar ==
  /\ pc = "normalizado"
  /\ df' = preparar_dados(df)
  /\ pc' = "preparado"
  /\ UNCHANGED <<erro, existe, planilha, workers, cb>>

\* iniciar_dashboard(df): the layout is built (the city options are sorted)
\* and the server starts with its workers idle.
IniciarDashboard ==
  /\ pc = "preparado"
  /\ IF opcoes_levanta(df)
     THEN pc' = "erro" /\ erro' = "TypeError" /\ cb' = cb
     ELSE pc' = "servindo" /\ erro' = erro /\ cb' = [i \in 1..workers |-> Idle]
  /\ UNCHANGED <<existe, planilha, df, workers>>

\* Faulty variant of AtualizarInicio: the filter is applied to the shared table too.
AtualizarInicioNoLugar(i, tipo, cidade) ==
  /\ pc = "servindo"
  /\ cb[i].st = "idle"
  /\ df' = filtrar(df, cidade)
  /\ cb' = [cb EXCEPT ![i] = [st |-> "filtrado", tipo |-> tipo, cidade |-> cidade,
                              df2 |-> filtrar(df, cidade)]]
  /\ UNCHANGED <<pc, erro, existe, planilha, workers>>

\* atualizar_grafico(tipo, cidade), first part: the copy and the city filter.
AtualizarInicio(i, tipo, cidade) ==
  /\ pc = "servindo"
  /\ cb[i].st = "idle"
  /\ cb' = [cb EXCEPT ![i] = [st |-> "filtrado", tipo |-> tipo, cidade |-> cidade,
                              df2 |-> filtrar(df, cidade)]]
  /\ UNCHANGED <<pc, erro, existe, planilha, df, workers>>

\* atualizar_grafico, second part: the branch of the chart type returns a figure.
AtualizarFim(i) ==
  /\ pc = "servindo"
  /\ cb[i].st = "filtrado"
  /\ \E fig \in figuras(cb[i].tipo, cb[i].df2) :
       cb' = [cb EXCEPT ![i] = [st |-> "done", tipo |-> cb[i].tipo,
                                cidade |-> cb[i].cidade, df2 |-> cb[i].df2,
                                fig |-> fig]]
  /\ UNCHANGED <<pc, erro, existe, planilha, df, workers>>

\* The figure is sent to the browser and the worker is free again.
Responder(i) ==
  /\ pc = "servindo"
  /\ cb[i].st = "done"
  /\ cb' = [cb EXCEPT ![i] = Idle]
  /\ UNCHANGED <<pc, erro, existe, planilha, df, workers>>

\* ---------------------------------------------------------------- inputs

MaxCols == 3

MaxRowsNorm == 1

MaxRowsPrep == 2

MaxRows == 3

MaxRowsConc == 1

MaxDistinct == 18

NoDataFrame == DataFrame(<<>>, <<>>, 0)

\* A spreadsheet given by its header row and its rows (sequences of cells).
planilha_de(columns, rows) ==
  DataFrame(columns,
            [j \in 1..Len(columns) |-> [r \in 1..Len(rows) |-> rows[r][j]]],
            Len(rows))

SeqsAte(pool, n) == UNION {[1..k -> pool] : k \in 0..n}

HeaderPool ==
  {S(s_Data_de_Compra), S(s_data_compra), S(s_DATA_COMPRA), S(s_date),
   S(s_Preco_cedilha), S(s_preco), S(s_PRECO), S(s_obs), N(2024)}

ColSeqs ==
  {c \in SeqsAte(HeaderPool, MaxCols) : \A i, j \in DOMAIN c : i # j => c[i] # c[j]}

\* Spreadsheets with varied headers; the cell of row r, column j is 10 r + j,
\* so that a column's values tell which column they came from.
TabelasNorm ==
  {DataFrame(c, [j \in 1..Len(c) |-> [r \in 1..n |-> N(10 * r + j)]], n) :
     c \in ColSeqs, n \in 0..MaxRowsNorm}

\* Spreadsheets with varied cells: a financing flag under the header "Finance"
\* (or no such column), a price and a purchase date.
FinPool ==
  <<S(s_Sim), S(s_YES), S(s_1), B(TRUE), S(s_vazio), S(s_nao), NA, S(s_0),
    B(FALSE), S(s_sim_espacos), N(1), N(0), F(1, 0), S(s_S), S(s_talvez),
    S(s_Financiado)>>

PrecoPool == <<S(s_12), S(s_12_5), S(s_12_345_67), N(5), NA>>

DataPool == <<S(s_2024_01_15), S(s_abc), NA, S(s_2024_02_30)>>

LinhasPrep ==
  {<<FinPool[i], PrecoPool[(i % Len(PrecoPool)) + 1], DataPool[(i % Len(DataPool)) + 1]>> :
     i \in 1..Len(FinPool)}

TabelasPrep ==
  {planilha_de(<<S(s_Finance), S(s_preco), S(s_data_compra)>>, rows) :
     rows \in SeqsAte(LinhasPrep, MaxRowsPrep)}
  \cup
  {planilha_de(<<S(s_preco), S(s_data_compra)>>,
               [r \in 1..Len(rows) |-> Tail(rows[r])]) :
     rows \in SeqsAte(LinhasPrep, MaxRowsPrep)}

\* Spreadsheets for the dashboard, with canonical headers.
ColunasDash ==
  <<S(s_cidade), S(s_marca), S(s_data_compra), S(s_financiado), S(s_preco)>>

LinhasDash ==
  <<<<S(s_SP), S(s_Fiat), S(s_2024_02_01), S(s_Sim), S(s_12)>>,
    <<S(s_RJ), S(s_VW), S(s_2024_01_15), S(s_nao), S(s_12_5)>>,
    <<S(s_SP), S(s_VW), S(s_2023_12_31), NA, S(s_abc)>>,
    <<NA, NA, NA, NA, NA>>,
    <<S(s_RJ), S(s_Fiat), S(s_2024_01_20), B(TRUE), N(5)>>,
    <<N(0), S(s_Ford), S(s_abc), N(1), NA>>>>

TabelasDash ==
  {planilha_de(ColunasDash, rows) : rows \in SeqsAte(Range(LinhasDash), MaxRows)}

\* Spreadsheets with many distinct makes: make i of k occurs qtd(forma, k, i)
\* times, the makes in blocks by first occurrence; the city repeats the make.
nome(i) == S(<<"m">> \o zfill(str_nat(i), 2))

qtd(forma, k, i) ==
  CASE forma = 1 -> i
    [] forma = 2 -> k + 1 - i
    [] OTHER -> (i + 1) \div 2

RECURSIVE blocos(_, _, _)
blocos(forma, k, i) ==
  IF i > k THEN <<>>
  ELSE [r \in 1..qtd(forma, k, i) |-> <<nome(i), nome(i)>>] \o blocos(forma, k, i + 1)

TabelasTop ==
  {planilha_de(<<S(s_marca), S(s_cidade)>>, blocos(forma, k, 1)) :
     forma \in 1..3, k \in 0..MaxDistinct}

TabelasConc ==
  {planilha_de(ColunasDash, rows) :
     rows \in SeqsAte({LinhasDash[1], LinhasDash[2]}, MaxRowsConc)}

InitCom(tabelas, n) ==
  /\ pc = "inicio"
  /\ erro = "none"
  /\ existe \in BOOLEAN
  /\ planilha \in tabelas
  /\ df = NoDataFrame
  /\ workers = n
  /\ cb = <<>>

InitNorm == InitCom(TabelasNorm, 0)

InitPrep == InitCom(TabelasPrep, 0)

Init == InitCom(TabelasDash \cup TabelasTop, 1)

InitConc == InitCom(TabelasConc, 2)

NextNorm == Carregar \/ Normalizar

NextPrep == Carregar \/ Normalizar \/ Preparar

Next ==
  \/ Carregar
  \/ Normalizar
  \/ Preparar
  \/ IniciarDashboard
  \/ \E i \in DOMAIN cb : \E tipo \in Tipos, cidade \in Filtros :
       AtualizarInicio(i, tipo, cidade)
  \/ \E i \in DOMAIN cb : AtualizarFim(i)
  \/ \E i \in DOMAIN cb : Responder(i)

\* normalizar_colunas alone.
SpecNorm == InitNorm /\ [][NextNorm]_vars

\* The pipeline up to preparar_dados.
SpecPrep == InitPrep /\ [][NextPrep]_vars

\* The whole program, the server answering one interaction at a time.
Spec == Init /\ [][Next]_vars

\* The whole program, the server answering two interactions concurrently.
SpecConc == InitConc /\ [][Next]_vars

\* ------------------------------------------------- claims: normalizar_colunas

\* The headers of the loaded spreadsheet that are text, by position.
textos == {j \in 1..Len(planilha.columns) : planilha.columns[j].t = "str"}

\* The positions of the headers that candidate i of a field matches.
casam(target, i) ==
  {j \in textos : casa(planilha.columns[j].s, candidatos(target)[i])}

\* No candidate of the field matches any header.
sem_coluna(target) == \A i \in DOMAIN candidatos(target) : casam(target, i) = {}

\* C1: after normalizar_colunas every one of the 15 canonical fields is a
\* column; a field none of whose candidates matches a header is null in every
\* row; and with text headers normalizar_colunas raises nothing.
C1_CamposPresentes ==
  /\ Len(m) = 15
  /\ pc = "normalizado" =>
       \A target \in campos :
         /\ has_col(df, target)
         /\ Len(getitem(df, target)) = planilha.index
         /\ sem_coluna(target) =>
              \A r \in 1..planilha.index : getitem(df, target)[r] = NA
  /\ erro = "AttributeError" => textos # DOMAIN planilha.columns

C1_Witness ==
  /\ pc = "normalizado"
  /\ planilha.index >= 1
  /\ sem_coluna(S(s_km))
  /\ getitem(df, S(s_km)) = <<NA>>
  /\ ~sem_coluna(S(s_preco))
  /\ getitem(df, S(s_preco)) # <<NA>>

\* C2 (as claimed): the table normalizar_colunas returns holds only canonical
\* fields; every other raw column is absent.
C2_SoCanonicas ==
  pc = "normalizado" => \A j \in 1..Len(df.columns) : df.columns[j] \in campos

\* C2 (amended): the table returned holds the raw columns and the canonical
\* fields, and nothing else; a raw column whose name is no canonical field
\* name keeps its position and its cells.
C2_ColunasMantidas ==
  pc = "normalizado" =>
    /\ Range(df.columns) = Range(planilha.columns) \cup campos
    /\ \A j \in 1..Len(planilha.columns) :
         /\ df.columns[j] = planilha.columns[j]
         /\ planilha.columns[j] \notin campos => df.data[j] = planilha.data[j]

C2_Witness ==
  /\ pc = "normalizado"
  /\ planilha.index >= 1
  /\ has_col(planilha, S(s_obs))
  /\ has_col(df, S(s_obs))
  /\ getitem(df, S(s_obs)) = getitem(planilha, S(s_obs))
  /\ has_col(df, S(s_id))

\* C8: the column chosen for a field is the first column, in the table's order,
\* matching the earliest candidate that matches any column at all.
C8_CandidatoAntesDeColuna ==
  pc = "normalizado" =>
    \A target \in campos :
      LET achados == {i \in DOMAIN candidatos(target) : casam(target, i) # {}}
      IN  achados # {} =>
            getitem(df, target) = planilha.data[Min(casam(target, Min(achados)))]

\* A later candidate's column stands before an earlier candidate's column,
\* and the field took the latter.
C8_Witness ==
  /\ pc = "normalizado"
  /\ planilha.index >= 1
  /\ \E i1, i2 \in DOMAIN candidatos(S(s_data_compra)) :
       \E j1 \in casam(S(s_data_compra), i1), j2 \in casam(S(s_data_compra), i2) :
         /\ i1 < i2 /\ j2 < j1
         /\ \A i \in 1..(i1 - 1) : casam(S(s_data_compra), i) = {}
         /\ j1 = Min(casam(S(s_data_compra), i1))
         /\ getitem(df, S(s_data_compra)) = planilha.data[j1]
         /\ planilha.data[j1] # planilha.data[j2]

\* C9 (as claimed): each of the headers "Data de Compra", "data_compra" and
\* "DATA-COMPRA" matches the candidate "data_compra".
C9_TresCabecalhos ==
  pc = "normalizado" =>
    \A j \in textos :
      planilha.columns[j] \in {S(s_Data_de_Compra), S(s_data_compra), S(s_DATA_COMPRA)}
        => casa(planilha.columns[j].s, s_data_compra)

\* C9 (amended): "data_compra" and "DATA-COMPRA" match the candidate
\* "data_compra"; "Data de Compra" does not (its key is "datadecompra"), it
\* matches the candidate "data de compra" of the same field.
C9_DoisCabecalhos ==
  pc = "normalizado" =>
    \A j \in textos :
      /\ planilha.columns[j] \in {S(s_data_compra), S(s_DATA_COMPRA)}
           => casa(planilha.columns[j].s, s_data_compra)
      /\ planilha.columns[j] = S(s_Data_de_Compra)
           => /\ ~casa(planilha.columns[j].s, s_data_compra)
              /\ casa(planilha.columns[j].s, s_data_de_compra)
              /\ s_data_de_compra \in Range(candidatos(S(s_data_compra)))

C9_Witness ==
  /\ pc = "normalizado"
  /\ planilha.index >= 1
  /\ planilha.columns = <<S(s_Data_de_Compra), S(s_DATA_COMPRA)>>
  /\ getitem(df, S(s_data_compra)) = planilha.data[2]

\* ----------------------------------------------------- claims: preparar_dados

\* The cell the financing flag of row r was read from: the "Finance" column of
\* the spreadsheet, or null when the spreadsheet has none.
flag_bruto(r) ==
  IF has_col(planilha, S(s_Finance)) THEN getitem(planilha, S(s_Finance))[r] ELSE NA

\* The truthy texts of the claim, and the results it lists and implies for the
\* cells of the inputs, written out by hand.
textos_verdadeiros ==
  {<<"t", "r", "u", "e">>, <<"1">>, <<"s", "i", "m">>, <<"s">>, <<"y", "e", "s">>,
   <<"y">>, <<"f", "i", "n", "a", "n", "c", "i", "a", "d", "o">>}

esperado ==
  (S(s_Sim) :> TRUE) @@ (S(s_YES) :> TRUE) @@ (S(s_1) :> TRUE) @@ (B(TRUE) :> TRUE) @@
  (S(s_vazio) :> FALSE) @@ (S(s_nao) :> FALSE) @@ (NA :> FALSE) @@ (S(s_0) :> FALSE) @@
  (B(FALSE) :> FALSE) @@ (S(s_sim_espacos) :> TRUE) @@ (N(1) :> TRUE) @@
  (N(0) :> FALSE) @@ (F(1, 0) :> FALSE) @@ (S(s_S) :> TRUE) @@ (S(s_talvez) :> FALSE) @@
  (S(s_Financiado) :> TRUE)

\* C3: after preparar_dados every row's financiado is a boolean: false for
\* null, the value itself for a boolean, and otherwise whether the trimmed,
\* lowercased string form is one of the seven truthy texts; "Sim", "YES", "1",
\* True give true and "", "nao", None, "0" give false.
C3_FinanciadoBooleano ==
  pc = "preparado" =>
    /\ Len(getitem(df, S(s_financiado))) = planilha.index
    /\ \A r \in 1..planilha.index :
         LET v == flag_bruto(r)
             fin == getitem(df, S(s_financiado))[r]
         IN  /\ fin.t = "bool"
             /\ fin.b = esperado[v]
             /\ fin.b = CASE v.t = "na" -> FALSE
                          [] v.t = "bool" -> v.b
                          [] OTHER -> lower(strip(str(v))) \in textos_verdadeiros

C3_Witness ==
  /\ pc = "preparado"
  /\ has_col(planilha, S(s_Finance))
  /\ getitem(planilha, S(s_Finance)) = <<S(s_sim_espacos), S(s_nao)>>
  /\ getitem(df, S(s_financiado)) = <<B(TRUE), B(FALSE)>>

\* C4: after preparar_dados forma_pagamento is "Financiado" exactly in the rows
\* whose financiado is true and "À vista" in the others, never null.
C4_FormaPagamento ==
  pc = "preparado" =>
    /\ Len(getitem(df, S(s_forma_pagamento))) = planilha.index
    /\ \A r \in 1..planilha.index :
         LET fin == getitem(df, S(s_financiado))[r]
             forma == getitem(df, S(s_forma_pagamento))[r]
         IN  /\ forma = S(s_Financiado) <=> fin = B(TRUE)
             /\ forma # S(s_Financiado) => forma = S(s_A_vista)

C4_Witness ==
  /\ pc = "preparado"
  /\ getitem(df, S(s_financiado)) = <<B(TRUE), B(FALSE)>>
  /\ getitem(df, S(s_forma_pagamento)) = <<S(s_Financiado), S(s_A_vista)>>

\* -------------------------------------------------- claims: atualizar_grafico

\* The rows of the prepared table whose cidade equals v.
linhas_da_cidade(v) ==
  LET c == getitem(df, S(s_cidade))
  IN  linhas(df, [r \in 1..df.index |-> ~isna(c[r]) /\ c[r] = v])

\* C5: the aggregation sees all rows when the city filter is null and, for
\* every other filter value, the empty string included, exactly the rows whose
\* cidade equals it.
C5_FiltroCidade ==
  \A i \in DOMAIN cb :
    cb[i].st = "filtrado" =>
      cb[i].df2 = IF cb[i].cidade = NA THEN df ELSE linhas_da_cidade(cb[i].cidade)

\* The column a top-10 chart counts, its distinct non-null values, the count
\* and the first row of a value.
coluna_do_tipo(i) ==
  getitem(cb[i].df2, IF cb[i].tipo = "marcas" THEN S(s_marca) ELSE S(s_cidade))

distintos(col) == Range(col) \ {NA}

ocorrencias(col, v) == Cardinality({r \in 1..Len(col) : col[r] = v})

primeira(col, v) == Min({r \in 1..Len(col) : col[r] = v})

menor(a, b) == IF a < b THEN a ELSE b

\* What both forms of C6 say: at most 10 bars, one per distinct non-null value
\* with its count, by descending count, and the bars left out count no more
\* than the bars kept.
top10_basico(col, fig) ==
  /\ fig.kind = "bar"
  /\ Len(fig.x) = menor(10, Cardinality(distintos(col)))
  /\ Len(fig.y) = Len(fig.x)
  /\ \A k \in 1..Len(fig.x) :
       fig.x[k] \in distintos(col) /\ fig.y[k] = ocorrencias(col, fig.x[k])
  /\ \A k, l \in 1..Len(fig.x) : k < l => fig.x[k] # fig.x[l] /\ fig.y[k] >= fig.y[l]
  /\ \A v \in distintos(col) \ Range(fig.x) :
       \A k \in 1..Len(fig.x) : ocorrencias(col, v) <= fig.y[k]

\* C6 (as claimed): ... and values of equal count stand in the order of their
\* first rows, also across the cut at 10.
C6_Top10PrimeiroEncontrado ==
  \A i \in DOMAIN cb :
    cb[i].st = "done" /\ cb[i].tipo \in {"marcas", "cidades"} =>
      LET col == coluna_do_tipo(i)
          fig == cb[i].fig
      IN  /\ top10_basico(col, fig)
          /\ \A k, l \in 1..Len(fig.x) :
               k < l /\ fig.y[k] = fig.y[l]
                 => primeira(col, fig.x[k]) < primeira(col, fig.x[l])
          /\ \A v \in distintos(col) \ Range(fig.x) :
               \A k \in 1..Len(fig.x) :
                 ocorrencias(col, v) = fig.y[k] => primeira(col, fig.x[k]) < primeira(col, v)

\* C6 (amended): at most 10 bars, one per distinct non-null value with its
\* count, by descending count, the 10 highest counts when there are more than
\* 10 values; the order among equal counts is not fixed.
C6_Top10 ==
  \A i \in DOMAIN cb :
    cb[i].st = "done" /\ cb[i].tipo \in {"marcas", "cidades"} =>
      top10_basico(coluna_do_tipo(i), cb[i].fig)

\* More than 10 distinct makes, cut to the 10 most frequent.
C6_Witness ==
  \E i \in DOMAIN cb :
    /\ cb[i].st = "done" /\ cb[i].tipo = "marcas"
    /\ Cardinality(distintos(coluna_do_tipo(i))) > 10
    /\ Len(cb[i].fig.x) = 10
    /\ cb[i].fig.y[1] > cb[i].fig.y[10]
    /\ primeira(coluna_do_tipo(i), cb[i].fig.x[1]) > primeira(coluna_do_tipo(i), cb[i].fig.x[10])

\* C10: for "mes" the figure has one point per distinct non-null mes_compra of
\* the filtered table, with the number of its rows, in chronological order;
\* with no non-null mes_compra the figure is empty.
C10_ComprasPorMes ==
  \A i \in DOMAIN cb :
    cb[i].st = "done" /\ cb[i].tipo = "mes" =>
      LET col == getitem(cb[i].df2, S(s_mes_compra))
          meses == distintos(col)
          fig == cb[i].fig
          mes_de(k) == CHOOSE p \in meses : str(p) = fig.x[k]
      IN  IF meses = {} THEN fig = [kind |-> "empty"]
          ELSE /\ fig.kind = "line"
               /\ Len(fig.x) = Cardinality(meses)
               /\ Len(fig.y) = Len(fig.x)
               /\ \A k \in 1..Len(fig.x) :
                    /\ \E p \in meses : str(p) = fig.x[k]
                    /\ fig.y[k] = ocorrencias(col, mes_de(k))
               /\ \A k, l \in 1..Len(fig.x) :
                    k < l => \/ mes_de(k).y < mes_de(l).y
                             \/ mes_de(k).y = mes_de(l).y /\ mes_de(k).mo < mes_de(l).mo

\* Rows of February, January and January again give January: 2, February: 1.
C10_Witness ==
  \E i \in DOMAIN cb :
    /\ cb[i].st = "done" /\ cb[i].tipo = "mes"
    /\ getitem(cb[i].df2, S(s_mes_compra)) = <<Period(2024, 2), Period(2024, 1), Period(2024, 1)>>
    /\ cb[i].fig.x = <<s_2024_01, s_2024_02>>
    /\ cb[i].fig.y = <<2, 1>>

\* C7: while the dashboard serves, no step of any invocation changes the
\* prepared table, and the figure an invocation returns is one that its own
\* chart type and city filter give on that table.
C7_TabelaSoLida ==
  [][pc = "servindo" =>
       /\ df' = df
       /\ \A i \in DOMAIN cb :
            cb[i].st = "filtrado" /\ cb'[i].st = "done"
              => cb'[i].fig \in figuras(cb[i].tipo, filtrar(df, cb[i].cidade))]_vars

\* Two invocations in flight, one filtered down to nothing, one holding rows.
C7_Witness ==
  /\ pc = "servindo"
  /\ df.index >= 1
  /\ DOMAIN cb = {1, 2}
  /\ cb[1].st = "filtrado" /\ cb[1].cidade = S(s_XX) /\ cb[1].df2.index = 0
  /\ cb[2].st = "done" /\ cb[2].cidade = NA /\ cb[2].tipo = "marcas"
  /\ Len(cb[2].fig.x) >= 1

====
